---- MODULE Spec2Model ----
(***************************************************************************)
(* Model of the multi-user product viewer's server (host arbitration,      *)
(* host-gated relay, per-host upload buffer, deletion of the uploads) and  *)
(* of the host state of its client pages.  Every socket handler, the       *)
(* request timer callback, each endpoint and each callback are one atomic  *)
(* action each: Node runs them to completion on a single thread.           *)
(***************************************************************************)
EXTENDS Integers, Sequences, FiniteSets, TLC

\* ---------------------------------------------------------------- bounds
MaxConns    == 3   \* socket ids the server hands out (ids are never reused)
MaxRequests == 2   \* uuids drawn for pending requests
MaxUploads  == 2   \* uuids drawn for buffered parts
MaxPayload  == 1   \* distinct relay payloads
MaxFiles    == 1   \* distinct file names
MaxInFlight == 2   \* host-changed messages on their way to one client
MaxDir      == 3   \* files of one kind in the uploads directory

\* ------------------------------------------------------------- constants
NULL     == 0      \* `null`: no host
UNDEF    == -1     \* `undefined`
ProtoKey == 0      \* a requestId naming a key inherited from Object.prototype

Conns      == 1..MaxConns
RequestIds == 1..MaxRequests
Payloads   == 1..MaxPayload
Files      == 1..MaxFiles
NoFile     == 0    \* request without the multipart field `model`
NoHeader   == 0    \* request without the x-socket-id header

Roles      == {"host", "viewer", ""}   \* "" is a request without x-uploader-role

RelayEvents   == {"model-transform", "camera-update", "reset-all"}
PointerEvents == {"host-pointer-toggle", "host-pointer-update"}

VARIABLES
    connected,          \* ids of the sockets currently connected
    nextConn,           \* number of socket ids handed out so far
    hostSocketId,       \* part_001:43
    pendingRequests,    \* part_001:44, requestId -> [requester]
    timers,             \* armed setTimeout handles: requestId -> socket.id of the closure
    nextRequestId,      \* number of request uuids drawn so far
    hostUploadBuffers,  \* part_001:47, socket id -> sequence of parts
    nextPartId,         \* number of part uuids drawn so far
    lastEvent,          \* the event the last step handled
    emitted,            \* the emit calls of the last step, in order
    clients,            \* app.js: socket id -> the App object of a loaded page
    deletion            \* part_001:126-162: the closure of a delete-all-uploads request

vars == <<connected, nextConn, hostSocketId, pendingRequests, timers,
          nextRequestId, hostUploadBuffers, nextPartId, lastEvent, emitted,
          clients, deletion>>

\* The server's own state (everything except the record of the last step).
serverState == <<hostSocketId, pendingRequests, timers, nextRequestId,
                 hostUploadBuffers, nextPartId>>

\* ------------------------------------------------------------- messages
Event(type, conn, arg) ==
    [type |-> type, conn |-> conn, arg |-> arg, role |-> ""]
UploadEvent(uid, role, file) ==
    [type |-> "upload", conn |-> uid, arg |-> file, role |-> role]

Msg(ev, to) ==
    [ev |-> ev, to |-> to, hostSocketId |-> NULL, requestId |-> 0,
     requester |-> 0, payload |-> 0, parts |-> <<>>, sender |-> 0]

\* io.emit: every connected socket.
IoEmit(conns) == conns
\* socket.broadcast.emit: every connected socket except the sender.
SocketBroadcastToAll(conns, c) == conns
SocketBroadcast(conns, c) == conns \ {c}
\* io.to(id).emit: the socket whose id is `id`, if there is one.
IoToEveryone(conns, id) == conns
IoTo(conns, id) == conns \cap {id}

HostChanged(conns, h) ==
    [Msg("host-changed", IoEmit(conns)) EXCEPT !.hostSocketId = h]

\* The hostSocketId fields of the host-changed messages among `msgs` that
\* are addressed to socket c, in the order they were emitted.
RECURSIVE HostChangesFor(_, _)
HostChangesFor(c, msgs) ==
    IF msgs = <<>> THEN <<>>
    ELSE IF Head(msgs).ev = "host-changed" /\ c \in Head(msgs).to
         THEN <<Head(msgs).hostSocketId>> \o HostChangesFor(c, Tail(msgs))
         ELSE HostChangesFor(c, Tail(msgs))

\* The requestId fields of the host-transfer-request messages among `msgs`
\* that are addressed to socket c.
TransferRequestsFor(c, msgs) ==
    {msgs[i].requestId : i \in {j \in 1..Len(msgs) :
                                  /\ msgs[j].ev = "host-transfer-request"
                                  /\ c \in msgs[j].to}}

\* The emit calls of a step hand their messages to the transport: each
\* host-changed joins the messages on their way to every loaded page it is
\* addressed to; each host-transfer-request is noted as sent to the page it
\* is addressed to; the register-host of a page is no longer on its way once
\* the server has handled it; the page of a socket that has disconnected is
\* gone.
Transmit ==
    /\ \A c \in DOMAIN clients \cap connected' :
          Len(clients[c].inbox) + Len(HostChangesFor(c, emitted')) <= MaxInFlight
    /\ clients' = [c \in DOMAIN clients \cap connected' |->
                     [clients[c] EXCEPT
                        !.inbox = @ \o HostChangesFor(c, emitted'),
                        !.transferRequests = @ \cup TransferRequestsFor(c, emitted'),
                        !.registering =
                            @ /\ ~(lastEvent'.type = "register-host" /\ lastEvent'.conn = c)]]

\* JavaScript truthiness of hostSocketId (socket ids are non-empty strings).
\* A test for undefined alone, which takes null for a host.
TruthyNotUndefined(h) == h # UNDEF
Truthy(h) == h \notin {NULL, UNDEF}

\* `delete obj[key]`
DeleteForgotten(obj, key) == obj
Delete(obj, key) == [k \in DOMAIN obj \ {key} |-> obj[k]]

\* `clearTimeout(handle)` of the timer armed for request `rid`: the callback
\* will not run.
ClearTimeoutSkipped(ts, rid) == ts
ClearTimeout(ts, rid) == [k \in DOMAIN ts \ {rid} |-> ts[k]]

\* `pendingRequests[requestId]` is truthy: an own key, or a key that the
\* plain object inherits from Object.prototype.
Lookup(reqs, rid) == rid \in DOMAIN reqs \/ rid = ProtoKey

\* The keys of pendingRequests whose requester is c, in for-in order
\* (insertion order, which is the order the uuids were drawn).
RECURSIVE KeysOfAnyone(_, _, _)
KeysOfAnyone(reqs, c, from) ==
    IF from > MaxRequests + 1 THEN <<>>
    ELSE IF from \in DOMAIN reqs
         THEN <<from>> \o KeysOfAnyone(reqs, c, from + 1)
         ELSE KeysOfAnyone(reqs, c, from + 1)
RECURSIVE KeysOf(_, _, _)
KeysOf(reqs, c, from) ==
    IF from > MaxRequests + 1 THEN <<>>
    ELSE IF from \in DOMAIN reqs /\ reqs[from].requester = c
         THEN <<from>> \o KeysOf(reqs, c, from + 1)
         ELSE KeysOf(reqs, c, from + 1)

\* A loop that, on its first match, empties the whole object.
DeleteAllReset(obj, keys) == IF keys = <<>> THEN obj ELSE << >>
RECURSIVE DeleteAll(_, _)
DeleteAll(obj, keys) ==
    IF keys = <<>> THEN obj ELSE DeleteAll(Delete(obj, Head(keys)), Tail(keys))

\* `clearTimeout` of every handle in `keys` (the loops of cancel-host-request
\* and disconnect).
ClearAllFirstOnly(ts, keys) ==
    IF keys = <<>> THEN ts ELSE ClearTimeout(ts, Head(keys))
RECURSIVE ClearAll(_, _)
ClearAll(ts, keys) ==
    IF keys = <<>> THEN ts ELSE ClearAll(ClearTimeout(ts, Head(keys)), Tail(keys))

\* ------------------------------------------------------------------ Init
Init ==
    /\ connected = {}
    /\ nextConn = 0
    /\ hostSocketId = NULL
    /\ pendingRequests = << >>
    /\ timers = << >>
    /\ nextRequestId = 0
    /\ hostUploadBuffers = [c \in Conns |-> <<>>]
    /\ nextPartId = 0
    /\ lastEvent = Event("init", 0, 0)
    /\ emitted = <<>>
    /\ clients = << >>
    /\ deletion = [files |-> 0, unlinks |-> 0, deleteCount |-> 0, errorCount |-> 0,
                   responses |-> <<>>]

\* ------------------------------------------------- connection registry
ConnectAsHost ==
    /\ nextConn < MaxConns
    /\ nextConn' = nextConn + 1
    /\ connected' = connected \cup {nextConn + 1}
    /\ lastEvent' = Event("connect", nextConn + 1, 0)
    /\ hostSocketId' = IF Truthy(hostSocketId) THEN hostSocketId ELSE nextConn + 1
    /\ emitted' = <<>>
    /\ UNCHANGED <<pendingRequests, timers, nextRequestId, hostUploadBuffers, nextPartId>>
    /\ Transmit
    /\ UNCHANGED deletion
Connect ==
    /\ nextConn < MaxConns
    /\ nextConn' = nextConn + 1
    /\ connected' = connected \cup {nextConn + 1}
    /\ lastEvent' = Event("connect", nextConn + 1, 0)
    /\ emitted' = <<>>
    /\ UNCHANGED serverState
    /\ Transmit
    /\ UNCHANGED deletion

\* hostSocketId after the disconnect of c.
HostAfterDisconnectStale(c, h) == h
HostAfterDisconnect(c, h) == IF c = h THEN NULL ELSE h

\* A disconnect that tells the host of the requests it withdraws, as
\* cancel-host-request does.
DisconnectTellingHost(c) ==
    /\ c \in connected
    /\ connected' = connected \ {c}
    /\ hostSocketId' = HostAfterDisconnect(c, hostSocketId)
    /\ emitted' = IF c = hostSocketId
                  THEN <<HostChanged(connected', NULL)>>
                  ELSE [i \in 1..Len(KeysOf(pendingRequests, c, 1)) |->
                          [Msg("host-request-cancelled", IoTo(connected', hostSocketId))
                             EXCEPT !.requestId = KeysOf(pendingRequests, c, 1)[i]]]
    /\ LET keys == KeysOf(pendingRequests, c, 1) IN
         /\ timers' = ClearAll(timers, keys)
         /\ pendingRequests' = DeleteAll(pendingRequests, keys)
    /\ lastEvent' = Event("disconnect", c, 0)
    /\ UNCHANGED <<nextConn, nextRequestId, hostUploadBuffers, nextPartId>>
    /\ Transmit
    /\ UNCHANGED deletion

DisconnectKeepingRequests(c) ==
    /\ c \in connected
    /\ connected' = connected \ {c}
    /\ hostSocketId' = HostAfterDisconnect(c, hostSocketId)
    /\ emitted' = IF c = hostSocketId
                  THEN <<HostChanged(connected', NULL)>>
                  ELSE <<>>
    /\ UNCHANGED <<timers, pendingRequests>>
    /\ lastEvent' = Event("disconnect", c, 0)
    /\ UNCHANGED <<nextConn, nextRequestId, hostUploadBuffers, nextPartId>>
    /\ Transmit
    /\ UNCHANGED deletion
Disconnect(c) ==
    /\ c \in connected
    /\ connected' = connected \ {c}
    /\ hostSocketId' = HostAfterDisconnect(c, hostSocketId)
    /\ emitted' = IF c = hostSocketId
                  THEN <<HostChanged(connected', NULL)>>
                  ELSE <<>>
    /\ LET keys == KeysOf(pendingRequests, c, 1) IN
         /\ timers' = ClearAll(timers, keys)
         /\ pendingRequests' = DeleteAll(pendingRequests, keys)
    /\ lastEvent' = Event("disconnect", c, 0)
    /\ UNCHANGED <<nextConn, nextRequestId, hostUploadBuffers, nextPartId>>
    /\ Transmit
    /\ UNCHANGED deletion

\* ---------------------------------------------------- host arbitration
\* register-host that yields to a host already in place.
RegisterHostIfUnclaimed(c) ==
    /\ c \in connected
    /\ hostSocketId' = IF Truthy(hostSocketId) THEN hostSocketId ELSE c
    /\ emitted' = <<HostChanged(connected, hostSocketId')>>
    /\ lastEvent' = Event("register-host", c, 0)
    /\ UNCHANGED <<connected, nextConn, pendingRequests, timers,
                   nextRequestId, hostUploadBuffers, nextPartId>>
    /\ Transmit
    /\ UNCHANGED deletion

RegisterHost(c) ==
    /\ c \in connected
    /\ hostSocketId' = c
    /\ emitted' = <<HostChanged(connected, hostSocketId')>>
    /\ lastEvent' = Event("register-host", c, 0)
    /\ UNCHANGED <<connected, nextConn, pendingRequests, timers,
                   nextRequestId, hostUploadBuffers, nextPartId>>
    /\ Transmit
    /\ UNCHANGED deletion

\* request-host asking every other socket instead of the host alone.
RequestHostBroadcast(c) ==
    /\ c \in connected
    /\ lastEvent' = Event("request-host", c, 0)
    /\ IF ~Truthy(hostSocketId)
       THEN /\ hostSocketId' = c
            /\ emitted' = <<HostChanged(connected, hostSocketId')>>
            /\ UNCHANGED <<pendingRequests, timers, nextRequestId>>
       ELSE IF hostSocketId = c
       THEN /\ emitted' = <<>>
            /\ UNCHANGED <<hostSocketId, pendingRequests, timers, nextRequestId>>
       ELSE /\ nextRequestId < MaxRequests
            /\ LET requestId == nextRequestId + 1 IN
                 /\ nextRequestId' = requestId
                 /\ timers' = [k \in DOMAIN timers \cup {requestId} |->
                                 IF k = requestId THEN c ELSE timers[k]]
                 /\ pendingRequests' =
                        [k \in DOMAIN pendingRequests \cup {requestId} |->
                           IF k = requestId THEN [requester |-> c]
                           ELSE pendingRequests[k]]
                 /\ emitted' =
                        <<[Msg("host-transfer-request", SocketBroadcast(connected, c))
                             EXCEPT !.requestId = requestId, !.requester = c]>>
            /\ UNCHANGED hostSocketId
    /\ UNCHANGED <<connected, nextConn, hostUploadBuffers, nextPartId>>
    /\ Transmit
    /\ UNCHANGED deletion

RequestHost(c) ==
    /\ c \in connected
    /\ lastEvent' = Event("request-host", c, 0)
    /\ IF ~Truthy(hostSocketId)
       THEN /\ hostSocketId' = c
            /\ emitted' = <<HostChanged(connected, hostSocketId')>>
            /\ UNCHANGED <<pendingRequests, timers, nextRequestId>>
       ELSE IF hostSocketId = c
       THEN /\ emitted' = <<>>
            /\ UNCHANGED <<hostSocketId, pendingRequests, timers, nextRequestId>>
       ELSE /\ nextRequestId < MaxRequests
            /\ LET requestId == nextRequestId + 1 IN
                 /\ nextRequestId' = requestId
                 /\ timers' = [k \in DOMAIN timers \cup {requestId} |->
                                 IF k = requestId THEN c ELSE timers[k]]
                 /\ pendingRequests' =
                        [k \in DOMAIN pendingRequests \cup {requestId} |->
                           IF k = requestId THEN [requester |-> c]
                           ELSE pendingRequests[k]]
                 /\ emitted' =
                        <<[Msg("host-transfer-request", IoTo(connected, hostSocketId))
                             EXCEPT !.requestId = requestId, !.requester = c]>>
            /\ UNCHANGED hostSocketId
    /\ UNCHANGED <<connected, nextConn, hostUploadBuffers, nextPartId>>
    /\ Transmit
    /\ UNCHANGED deletion

\* hostSocketId after the timer callback whose closure holds socket id c.
HostAfterTimeoutIfUnclaimed(c, h) == IF Truthy(h) THEN h ELSE c
HostAfterTimeout(c, h) == c

\* A timer callback that grants the role and forgets to delete the request.
TimeoutKeepingRequest(rid) ==
    /\ rid \in DOMAIN timers
    /\ hostSocketId' = HostAfterTimeout(timers[rid], hostSocketId)
    /\ emitted' = <<HostChanged(connected, hostSocketId')>>
    /\ pendingRequests' = pendingRequests
    /\ timers' = Delete(timers, rid)
    /\ lastEvent' = Event("timeout", timers[rid], rid)
    /\ UNCHANGED <<connected, nextConn, nextRequestId, hostUploadBuffers, nextPartId>>
    /\ Transmit
    /\ UNCHANGED deletion

\* The callback of the timer armed by request-host for `rid`.
Timeout(rid) ==
    /\ rid \in DOMAIN timers
    /\ hostSocketId' = HostAfterTimeout(timers[rid], hostSocketId)
    /\ emitted' = <<HostChanged(connected, hostSocketId')>>
    /\ pendingRequests' = Delete(pendingRequests, rid)
    /\ timers' = Delete(timers, rid)
    /\ lastEvent' = Event("timeout", timers[rid], rid)
    /\ UNCHANGED <<connected, nextConn, nextRequestId, hostUploadBuffers, nextPartId>>
    /\ Transmit
    /\ UNCHANGED deletion

\* `const { timeout, requester } = pendingRequests[requestId]`: for an
\* inherited key both are undefined.
RequesterOf(reqs, rid) ==
    IF rid \in DOMAIN reqs THEN reqs[rid].requester ELSE UNDEF

ReleaseHostSilently(c, rid) ==
    /\ c \in connected
    /\ lastEvent' = Event("release-host", c, rid)
    /\ IF Lookup(pendingRequests, rid)
       THEN /\ timers' = ClearTimeout(timers, rid)
            /\ hostSocketId' = RequesterOf(pendingRequests, rid)
            /\ emitted' = <<>>
            /\ pendingRequests' = Delete(pendingRequests, rid)
       ELSE /\ emitted' = <<>>
            /\ UNCHANGED <<hostSocketId, pendingRequests, timers>>
    /\ UNCHANGED <<connected, nextConn, nextRequestId, hostUploadBuffers, nextPartId>>
    /\ Transmit
    /\ UNCHANGED deletion
ReleaseHost(c, rid) ==
    /\ c \in connected
    /\ lastEvent' = Event("release-host", c, rid)
    /\ IF Lookup(pendingRequests, rid)
       THEN /\ timers' = ClearTimeout(timers, rid)
            /\ hostSocketId' = RequesterOf(pendingRequests, rid)
            /\ emitted' = <<HostChanged(connected, hostSocketId')>>
            /\ pendingRequests' = Delete(pendingRequests, rid)
       ELSE /\ emitted' = <<>>
            /\ UNCHANGED <<hostSocketId, pendingRequests, timers>>
    /\ UNCHANGED <<connected, nextConn, nextRequestId, hostUploadBuffers, nextPartId>>
    /\ Transmit
    /\ UNCHANGED deletion

DenyHost(c, rid) ==
    /\ c \in connected
    /\ lastEvent' = Event("deny-host", c, rid)
    /\ IF Lookup(pendingRequests, rid)
       THEN /\ timers' = ClearTimeout(timers, rid)
            /\ emitted' =
                   <<[Msg("transfer-denied",
                          IoTo(connected, RequesterOf(pendingRequests, rid)))
                        EXCEPT !.requestId = rid]>>
            /\ pendingRequests' = Delete(pendingRequests, rid)
       ELSE /\ emitted' = <<>>
            /\ UNCHANGED <<pendingRequests, timers>>
    /\ UNCHANGED <<connected, nextConn, hostSocketId, nextRequestId,
                   hostUploadBuffers, nextPartId>>
    /\ Transmit
    /\ UNCHANGED deletion

CancelHostRequest(c) ==
    /\ c \in connected
    /\ lastEvent' = Event("cancel-host-request", c, 0)
    /\ LET keys == KeysOf(pendingRequests, c, 1) IN
         /\ timers' = ClearAll(timers, keys)
         /\ pendingRequests' = DeleteAll(pendingRequests, keys)
         /\ emitted' =
                IF Truthy(hostSocketId)
                THEN [i \in 1..Len(keys) |->
                        [Msg("host-request-cancelled", IoTo(connected, hostSocketId))
                           EXCEPT !.requestId = keys[i]]]
                ELSE <<>>
    /\ UNCHANGED <<connected, nextConn, hostSocketId, nextRequestId,
                   hostUploadBuffers, nextPartId>>
    /\ Transmit
    /\ UNCHANGED deletion

\* give-up-host that does not look at who is asking.
GiveUpHostAnyone(c) ==
    /\ c \in connected
    /\ lastEvent' = Event("give-up-host", c, 0)
    /\ IF TRUE
       THEN /\ hostSocketId' = NULL
            /\ emitted' = <<HostChanged(connected, NULL)>>
       ELSE /\ emitted' = <<>>
            /\ UNCHANGED hostSocketId
    /\ UNCHANGED <<connected, nextConn, pendingRequests, timers, nextRequestId,
                   hostUploadBuffers, nextPartId>>
    /\ Transmit
    /\ UNCHANGED deletion

\* give-up-host that drops the requests addressed to the host that leaves.
GiveUpHostDroppingRequests(c) ==
    /\ c \in connected
    /\ lastEvent' = Event("give-up-host", c, 0)
    /\ IF c = hostSocketId
       THEN /\ hostSocketId' = NULL
            /\ emitted' = <<HostChanged(connected, NULL)>>
            /\ pendingRequests' = << >>
            /\ timers' = << >>
       ELSE /\ emitted' = <<>>
            /\ UNCHANGED <<hostSocketId, pendingRequests, timers>>
    /\ UNCHANGED <<connected, nextConn, nextRequestId, hostUploadBuffers, nextPartId>>
    /\ Transmit
    /\ UNCHANGED deletion

GiveUpHost(c) ==
    /\ c \in connected
    /\ lastEvent' = Event("give-up-host", c, 0)
    /\ IF c = hostSocketId
       THEN /\ hostSocketId' = NULL
            /\ emitted' = <<HostChanged(connected, NULL)>>
       ELSE /\ emitted' = <<>>
            /\ UNCHANGED hostSocketId
    /\ UNCHANGED <<connected, nextConn, pendingRequests, timers, nextRequestId,
                   hostUploadBuffers, nextPartId>>
    /\ Transmit
    /\ UNCHANGED deletion

\* -------------------------------------------------- authoritative relay
\* The guard of the three host-gated handlers.
IsHostOrUnclaimed(c, h) == c = h \/ h = NULL
IsHost(c, h) == c = h

\* A handler that relays every event a second time.
RelayOutTwice(ev, c, payload) ==
    IF IsHost(c, hostSocketId)
    THEN LET m == [Msg(ev, SocketBroadcast(connected, c)) EXCEPT !.payload = payload]
         IN <<m, m>>
    ELSE <<>>

\* What a host-gated handler emits for `payload` sent by c.
RelayOut(ev, c, payload) ==
    IF IsHost(c, hostSocketId)
    THEN <<[Msg(ev, SocketBroadcast(connected, c)) EXCEPT !.payload = payload]>>
    ELSE <<>>

Relay(ev, c, payload) ==
    /\ c \in connected
    /\ lastEvent' = Event(ev, c, payload)
    /\ emitted' = RelayOut(ev, c, payload)
    /\ UNCHANGED <<connected, nextConn, serverState>>
    /\ Transmit
    /\ UNCHANGED deletion

ModelTransform(c, payload) == Relay("model-transform", c, payload)
CameraUpdate(c, payload)   == Relay("camera-update", c, payload)
ResetAll(c, payload)       == Relay("reset-all", c, payload)

\* A pointer relay gated on the host like the three handlers above.
PointerRelayHostGated(ev, c, payload) == Relay(ev, c, payload)
PointerRelay(ev, c, payload) ==
    /\ c \in connected
    /\ lastEvent' = Event(ev, c, payload)
    /\ emitted' = <<[Msg(ev, SocketBroadcast(connected, c)) EXCEPT !.payload = payload]>>
    /\ UNCHANGED <<connected, nextConn, serverState>>
    /\ Transmit
    /\ UNCHANGED deletion

HostPointerToggle(c, payload) == PointerRelay("host-pointer-toggle", c, payload)
HostPointerUpdate(c, payload) == PointerRelay("host-pointer-update", c, payload)

\* --------------------------------------------- upload aggregation buffer
\* The descriptor pushed for an accepted upload; the url is a function of
\* the file name.
Part(file, id, sender) == [url |-> file, name |-> file, id |-> id, sender |-> sender]

\* `hostUploadBuffers[uploaderId].push(part)`
PushFront(buf, part) == <<part>> \o buf
Push(buf, part) == Append(buf, part)

\* An endpoint that buffers for whoever names a socket id, whatever the role.
UploadAnyRole(uid, role, file) ==
    /\ uid \in (1..nextConn) \cup {NoHeader}
    /\ lastEvent' = UploadEvent(uid, role, file)
    /\ emitted' = <<>>
    /\ IF file # NoFile /\ uid # NoHeader
       THEN /\ nextPartId < MaxUploads
            /\ nextPartId' = nextPartId + 1
            /\ hostUploadBuffers' =
                   [hostUploadBuffers EXCEPT
                      ![uid] = Push(@, Part(file, nextPartId + 1, uid))]
       ELSE UNCHANGED <<hostUploadBuffers, nextPartId>>
    /\ UNCHANGED <<connected, nextConn, hostSocketId, pendingRequests, timers,
                   nextRequestId>>
    /\ Transmit
    /\ UNCHANGED deletion

\* POST /upload.  uid is the x-socket-id header, role the x-uploader-role
\* header, file the multipart field.
Upload(uid, role, file) ==
    /\ uid \in (1..nextConn) \cup {NoHeader}
    /\ lastEvent' = UploadEvent(uid, role, file)
    /\ emitted' = <<>>
    /\ IF file # NoFile /\ role = "host" /\ uid # NoHeader
       THEN /\ nextPartId < MaxUploads
            /\ nextPartId' = nextPartId + 1
            /\ hostUploadBuffers' =
                   [hostUploadBuffers EXCEPT
                      ![uid] = Push(@, Part(file, nextPartId + 1, uid))]
       ELSE UNCHANGED <<hostUploadBuffers, nextPartId>>
    /\ UNCHANGED <<connected, nextConn, hostSocketId, pendingRequests, timers,
                   nextRequestId>>
    /\ Transmit
    /\ UNCHANGED deletion

\* A flush sent with socket.broadcast.emit, which skips the sender.
ProductUploadCompleteToOthers(c) ==
    /\ c \in connected
    /\ lastEvent' = Event("product-upload-complete", c, 0)
    /\ LET partsBuffer == hostUploadBuffers[c] IN
         IF Len(partsBuffer) > 0
         THEN /\ emitted' =
                    <<[Msg("product-upload-complete", SocketBroadcast(connected, c))
                         EXCEPT !.parts = partsBuffer, !.sender = c]>>
              /\ hostUploadBuffers' = [hostUploadBuffers EXCEPT ![c] = <<>>]
         ELSE /\ emitted' = <<>>
              /\ UNCHANGED hostUploadBuffers
    /\ UNCHANGED <<connected, nextConn, hostSocketId, pendingRequests, timers,
                   nextRequestId, nextPartId>>
    /\ Transmit
    /\ UNCHANGED deletion

ProductUploadComplete(c) ==
    /\ c \in connected
    /\ lastEvent' = Event("product-upload-complete", c, 0)
    /\ LET partsBuffer == hostUploadBuffers[c] IN
         IF Len(partsBuffer) > 0
         THEN /\ emitted' =
                    <<[Msg("product-upload-complete", IoEmit(connected))
                         EXCEPT !.parts = partsBuffer, !.sender = c]>>
              /\ hostUploadBuffers' = [hostUploadBuffers EXCEPT ![c] = <<>>]
         ELSE /\ emitted' = <<>>
              /\ UNCHANGED hostUploadBuffers
    /\ UNCHANGED <<connected, nextConn, hostSocketId, pendingRequests, timers,
                   nextRequestId, nextPartId>>
    /\ Transmit
    /\ UNCHANGED deletion

\* A selection sent with socket.broadcast.emit, which skips the sender.
BrowseSelectionToOthers(c, file) ==
    /\ c \in connected
    /\ lastEvent' = Event("browse-selection", c, file)
    /\ emitted' =
           IF c = hostSocketId
           THEN <<[Msg("product-upload-complete", SocketBroadcast(connected, c))
                     EXCEPT !.parts = <<Part(file, 0, 0)>>, !.sender = c]>>
           ELSE <<>>
    /\ UNCHANGED <<connected, nextConn, serverState>>
    /\ Transmit
    /\ UNCHANGED deletion

\* A selection broadcast for whoever sends it.
BrowseSelectionAnyone(c, file) ==
    /\ c \in connected
    /\ lastEvent' = Event("browse-selection", c, file)
    /\ emitted' =
           IF TRUE
           THEN <<[Msg("product-upload-complete", IoEmit(connected))
                     EXCEPT !.parts = <<Part(file, 0, 0)>>, !.sender = c]>>
           ELSE <<>>
    /\ UNCHANGED <<connected, nextConn, serverState>>
    /\ Transmit
    /\ UNCHANGED deletion

\* browse-selection{parts}: the client's selection is a list of {url, name}.
BrowseSelection(c, file) ==
    /\ c \in connected
    /\ lastEvent' = Event("browse-selection", c, file)
    /\ emitted' =
           IF c = hostSocketId
           THEN <<[Msg("product-upload-complete", IoEmit(connected))
                     EXCEPT !.parts = <<Part(file, 0, 0)>>, !.sender = c]>>
           ELSE <<>>
    /\ UNCHANGED <<connected, nextConn, serverState>>
    /\ Transmit
    /\ UNCHANGED deletion

\* ------------------------------------------------- DELETE /delete-all-uploads
\* The request handler and its readdir callback.  The directory holds `glb`
\* files ending in .glb or .gltf and `other` files; readErr says whether
\* readdir failed.  One request is followed at a time.
DeleteAllUploads(glb, other, readErr) ==
    /\ deletion.unlinks = 0
    /\ lastEvent' = Event("delete-all-uploads", 0, glb + other)
    /\ deletion' =
          IF readErr
          THEN [files |-> 0, unlinks |-> 0, deleteCount |-> 0, errorCount |-> 0,
                responses |-> <<500>>]
          ELSE IF glb + other = 0
          THEN [files |-> 0, unlinks |-> 0, deleteCount |-> 0, errorCount |-> 0,
                responses |-> <<200>>]
          ELSE [files |-> glb + other, unlinks |-> glb, deleteCount |-> 0,
                errorCount |-> 0, responses |-> <<>>]
    /\ emitted' = <<>>
    /\ UNCHANGED <<connected, nextConn, serverState, clients>>

\* The callback of one fs.unlink; ok says whether the file was removed.
UnlinkDone(ok) ==
    /\ deletion.unlinks > 0
    /\ lastEvent' = Event("unlink", 0, IF ok THEN 1 ELSE 0)
    /\ LET deleteCount == deletion.deleteCount + (IF ok THEN 1 ELSE 0)
           errorCount  == deletion.errorCount + (IF ok THEN 0 ELSE 1)
       IN deletion' =
            [files |-> deletion.files,
             unlinks |-> deletion.unlinks - 1,
             deleteCount |-> deleteCount,
             errorCount |-> errorCount,
             responses |-> IF deleteCount + errorCount = deletion.files
                           THEN Append(deletion.responses, 200)
                           ELSE deletion.responses]
    /\ emitted' = <<>>
    /\ UNCHANGED <<connected, nextConn, serverState, clients>>

\* ------------------------------------------------------------ the client
\* A page is loaded with ?role=`role` in its URL (app.js:30-44): the App
\* object takes isHost from the URL, has no currentHostId yet, its socket
\* connects, and a page loaded as host emits register-host.
Open(role) ==
    /\ nextConn < MaxConns
    /\ nextConn' = nextConn + 1
    /\ connected' = connected \cup {nextConn + 1}
    /\ lastEvent' = [Event("connect", nextConn + 1, 0) EXCEPT !.role = role]
    /\ emitted' = <<>>
    /\ clients' = [c \in DOMAIN clients \cup {nextConn + 1} |->
                     IF c = nextConn + 1
                     THEN [isHost |-> role = "host", currentHostId |-> UNDEF,
                           registering |-> role = "host", inbox |-> <<>>,
                           transferRequests |-> {}]
                     ELSE clients[c]]
    /\ UNCHANGED <<serverState, deletion>>

\* isHost as the host-changed handler computes it for socket id c.
IsHostAfter(c, h) == IF Truthy(h) THEN h = c ELSE FALSE

\* The page of socket c handles the oldest host-changed on its way to it
\* (app.js:467-484).
Receive(c) ==
    /\ c \in DOMAIN clients
    /\ clients[c].inbox # <<>>
    /\ LET h == Head(clients[c].inbox) IN
         /\ clients' = [clients EXCEPT ![c] =
                           [@ EXCEPT !.isHost = IsHostAfter(c, h),
                                     !.currentHostId = h,
                                     !.inbox = Tail(clients[c].inbox)]]
         /\ lastEvent' = Event("received host-changed", c, h)
    /\ emitted' = <<>>
    /\ UNCHANGED <<connected, nextConn, serverState, deletion>>

\* The connection of the page of socket c is lost and its socket.io client,
\* created by `io()` with the default options (app.js:41), connects again:
\* the server runs the disconnect handler for c (part_001:290-301) and the
\* page is back on a socket with a fresh id.  The App object is the same
\* one: isHost and currentHostId are as they were, no handler of the page
\* runs, register-host is not emitted again (it is emitted in the
\* constructor only), and what was on its way to the old socket is lost.
Reconnect(c) ==
    /\ c \in DOMAIN clients \cap connected
    /\ ~clients[c].registering
    /\ nextConn < MaxConns
    /\ nextConn' = nextConn + 1
    /\ connected' = (connected \ {c}) \cup {nextConn + 1}
    /\ hostSocketId' = HostAfterDisconnect(c, hostSocketId)
    /\ emitted' = IF c = hostSocketId
                  THEN <<HostChanged(connected \ {c}, NULL)>>
                  ELSE <<>>
    /\ LET keys == KeysOf(pendingRequests, c, 1) IN
         /\ timers' = ClearAll(timers, keys)
         /\ pendingRequests' = DeleteAll(pendingRequests, keys)
    /\ lastEvent' = Event("reconnect", nextConn + 1, c)
    /\ \A d \in DOMAIN clients \ {c} :
          Len(clients[d].inbox) + Len(HostChangesFor(d, emitted')) <= MaxInFlight
    /\ clients' = [d \in (DOMAIN clients \ {c}) \cup {nextConn + 1} |->
                     IF d = nextConn + 1
                     THEN [clients[c] EXCEPT !.inbox = <<>>]
                     ELSE [clients[d] EXCEPT
                             !.inbox = @ \o HostChangesFor(d, emitted')]]
    /\ UNCHANGED <<nextRequestId, hostUploadBuffers, nextPartId, deletion>>

\* Connections come and go and contend for the host role.
Arbitration ==
    \/ Connect
    \/ \E c \in Conns : Disconnect(c)
    \/ \E c \in Conns : RegisterHost(c)
    \/ \E c \in Conns : RequestHost(c)
    \/ \E rid \in RequestIds : Timeout(rid)
    \/ \E c \in Conns, rid \in RequestIds \cup {ProtoKey} : ReleaseHost(c, rid)
    \/ \E c \in Conns, rid \in RequestIds \cup {ProtoKey} : DenyHost(c, rid)
    \/ \E c \in Conns : CancelHostRequest(c)
    \/ \E c \in Conns : GiveUpHost(c)

\* The host-gated relay.
Relaying ==
    \/ \E c \in Conns, p \in Payloads : ModelTransform(c, p)
    \/ \E c \in Conns, p \in Payloads : CameraUpdate(c, p)
    \/ \E c \in Conns, p \in Payloads : ResetAll(c, p)

\* The relays that are not host-gated by the three handlers above.
Broadcasting ==
    \/ \E c \in Conns, p \in Payloads : HostPointerToggle(c, p)
    \/ \E c \in Conns, p \in Payloads : HostPointerUpdate(c, p)
    \/ \E c \in Conns, file \in Files : BrowseSelection(c, file)

Uploading ==
    \/ \E uid \in Conns \cup {NoHeader}, role \in Roles, file \in Files \cup {NoFile} :
          Upload(uid, role, file)
    \/ \E c \in Conns : ProductUploadComplete(c)

\* Host arbitration.
Next == Arbitration

Spec == Init /\ [][Next]_vars

\* Host arbitration in which the host of the moment answers the requests and
\* gives the role up, and no armed timer is kept from firing for ever
\* (setTimeout runs its callback unless clearTimeout came first).
NextFair ==
    \/ Connect
    \/ \E c \in Conns : Disconnect(c)
    \/ \E c \in Conns : RegisterHost(c)
    \/ \E c \in Conns : RequestHost(c)
    \/ \E rid \in RequestIds : Timeout(rid)
    \/ \E c \in Conns, rid \in RequestIds : c = hostSocketId /\ ReleaseHost(c, rid)
    \/ \E c \in Conns, rid \in RequestIds : c = hostSocketId /\ DenyHost(c, rid)
    \/ \E c \in Conns : CancelHostRequest(c)
    \/ \E c \in Conns : c = hostSocketId /\ GiveUpHost(c)

SpecFair ==
    Init /\ [][NextFair]_vars /\ \A rid \in RequestIds : WF_vars(Timeout(rid))

\* Host arbitration and the host-gated relay.
NextRelay == Arbitration \/ Relaying

SpecRelay == Init /\ [][NextRelay]_vars

\* Host arbitration and the relays of pointer events and browse selections.
NextBroadcast == Arbitration \/ Broadcasting

SpecBroadcast == Init /\ [][NextBroadcast]_vars

\* The upload buffer, with connections arriving and the host role claimed
\* and given up.
NextUpload ==
    \/ Connect
    \/ \E c \in Conns : RegisterHost(c)
    \/ \E c \in Conns : GiveUpHost(c)
    \/ Uploading

SpecUpload == Init /\ [][NextUpload]_vars

\* A session in which the host role is claimed and requested while parts
\* tagged 'host' are uploaded, and flushed by the host (the client emits
\* product-upload-complete only while it takes itself for the host).
NextSession ==
    \/ Connect
    \/ \E c \in Conns : RegisterHost(c)
    \/ \E c \in Conns : RequestHost(c)
    \/ \E c \in Conns, file \in Files : Upload(c, "host", file)
    \/ \E c \in Conns : c = hostSocketId /\ ProductUploadComplete(c)

SpecSession == Init /\ [][NextSession]_vars

\* A handover: the role is claimed, requested and released, and the host of
\* the moment uploads parts tagged 'host' and flushes them.
NextHandover ==
    \/ Connect
    \/ \E c \in Conns : hostSocketId = NULL /\ RegisterHost(c)
    \/ \E c \in Conns : RequestHost(c)
    \/ \E c \in Conns, rid \in RequestIds : c = hostSocketId /\ ReleaseHost(c, rid)
    \/ \E c \in Conns, file \in Files : c = hostSocketId /\ Upload(c, "host", file)
    \/ \E c \in Conns : c = hostSocketId /\ ProductUploadComplete(c)

SpecHandover == Init /\ [][NextHandover]_vars

\* The two sources of product-upload-complete: the flush of a buffer of
\* uploaded parts and the host's selection from the catalogue.
NextCatalogue ==
    \/ Connect
    \/ \E c \in Conns : RegisterHost(c)
    \/ \E c \in Conns : GiveUpHost(c)
    \/ \E c \in Conns, file \in Files : Upload(c, "host", file)
    \/ \E c \in Conns : ProductUploadComplete(c)
    \/ \E c \in Conns, file \in Files : BrowseSelection(c, file)

SpecCatalogue == Init /\ [][NextCatalogue]_vars

\* Pages are loaded as host or as viewer and follow the host-changed
\* messages while the role is claimed, given up and lost to a disconnect.
NextClients ==
    \/ \E role \in {"host", "viewer"} : Open(role)
    \/ \E c \in Conns : Receive(c)
    \/ \E c \in Conns : RegisterHost(c)
    \/ \E c \in Conns : GiveUpHost(c)
    \/ \E c \in Conns : Disconnect(c)

SpecClients == Init /\ [][NextClients]_vars

\* Pages that contend for the host role: every socket belongs to a loaded
\* page, a page loaded as host registers once (the only register-host the
\* page emits, app.js:42-44), requests are made and run out, connections
\* drop and come back, and each page follows the host-changed messages that
\* reach it.
NextPages ==
    \/ \E role \in {"host", "viewer"} : Open(role)
    \/ \E c \in Conns : Receive(c)
    \/ \E c \in DOMAIN clients : clients[c].registering /\ RegisterHost(c)
    \/ \E c \in Conns : RequestHost(c)
    \/ \E rid \in RequestIds : Timeout(rid)
    \/ \E c \in Conns : Reconnect(c)

SpecPages == Init /\ [][NextPages]_vars

\* Requests to delete all uploads, one after the other, for every content of
\* the directory.
NextDelete ==
    \/ \E glb \in 0..MaxDir, other \in 0..MaxDir, readErr \in BOOLEAN :
          DeleteAllUploads(glb, other, readErr)
    \/ \E ok \in BOOLEAN : UnlinkDone(ok)

SpecDelete == Init /\ [][NextDelete]_vars

\* ======================================================================
\* Properties
\* ======================================================================

\* The step just taken handled event `type`.
Handled(type) == lastEvent'.type = type

\* The step just taken is one of those that may remove request r of
\* requester b: its release or denial, b's cancel, b's disconnect, its timer.
Resolves(r, b) ==
    \/ lastEvent'.type \in {"release-host", "deny-host", "timeout"} /\ lastEvent'.arg = r
    \/ lastEvent'.type \in {"cancel-host-request", "disconnect"} /\ lastEvent'.conn = b

\* C2 (auto-grant).  Every pending request keeps an armed timer whose
\* closure holds the requester; a request stays pending through every step
\* that is not its release or denial, a cancel or the disconnect of its
\* requester, or its timer; and the step in which the timer of request r
\* fires sets hostSocketId to the requester, emits exactly one host-changed
\* naming the requester to every connected socket, and removes r.
AutoGrantOnTimeout ==
    [][/\ \A r \in DOMAIN pendingRequests :
            /\ r \in DOMAIN timers /\ timers[r] = pendingRequests[r].requester
            /\ ~Resolves(r, pendingRequests[r].requester) =>
                  (r \in DOMAIN pendingRequests' /\ r \in DOMAIN timers')
       /\ \A r \in RequestIds :
            (Handled("timeout") /\ lastEvent'.arg = r) =>
               /\ r \in DOMAIN pendingRequests
               /\ LET B == pendingRequests[r].requester IN
                    /\ B \in connected
                    /\ hostSocketId' = B
                    /\ emitted' = <<[Msg("host-changed", connected)
                                       EXCEPT !.hostSocketId = B]>>
                    /\ r \notin DOMAIN pendingRequests']_vars

\* A deadline fired: the requester holds the role and every connected
\* socket, at least one other connection among them, was told.
AutoGrantHappened ==
    /\ lastEvent.type = "timeout"
    /\ hostSocketId = lastEvent.conn
    /\ Cardinality(connected) >= 2
    /\ emitted = <<[Msg("host-changed", connected)
                      EXCEPT !.hostSocketId = lastEvent.conn]>>

\* C3 (host-gated relay).  A model-transform, camera-update or reset-all from
\* a connection that is not the host, also while there is no host, emits
\* nothing and leaves the server's state as it was.
HostGatedRelay ==
    [][\A c \in Conns :
         (lastEvent'.type \in RelayEvents /\ lastEvent'.conn = c /\ c # hostSocketId) =>
            /\ emitted' = <<>>
            /\ UNCHANGED <<connected, nextConn, serverState>>]_vars

\* A viewer's relay event was dropped while some other connection was host.
RelayDropped ==
    /\ lastEvent.type \in RelayEvents
    /\ lastEvent.conn # hostSocketId
    /\ hostSocketId \in connected
    /\ emitted = <<>>

\* C4.  A model-transform, camera-update or reset-all from the host is emitted
\* once, under the same event name and with the same payload, to every
\* connected socket except the sender.
HostRelayReachesOthers ==
    [][\A c \in Conns :
         (lastEvent'.type \in RelayEvents /\ lastEvent'.conn = c /\ c = hostSocketId) =>
            /\ emitted' = <<[Msg(lastEvent'.type, connected \ {c})
                               EXCEPT !.payload = lastEvent'.arg]>>
            /\ UNCHANGED <<connected, nextConn, serverState>>]_vars

\* The host's event went out to two viewers and not to the host.
HostRelayed ==
    /\ lastEvent.type \in RelayEvents
    /\ lastEvent.conn = hostSocketId
    /\ Len(emitted) = 1
    /\ emitted[1].payload = lastEvent.arg
    /\ Cardinality(emitted[1].to) = 2
    /\ lastEvent.conn \notin emitted[1].to

\* The upload just handled was accepted into the buffer of connection h.
AcceptedUploadFor(h) ==
    /\ Handled("upload")
    /\ lastEvent'.conn = h
    /\ lastEvent'.role = "host"
    /\ lastEvent'.arg # NoFile

FlushBy(h) == Handled("product-upload-complete") /\ lastEvent'.conn = h

\* C5 (buffer atomicity).  An accepted host upload for H appends one part at
\* the end of H's buffer and emits nothing; a product-upload-complete from H
\* with a non-empty buffer emits exactly one product-upload-complete carrying
\* the whole buffer in order to every connected socket and empties the
\* buffer; with an empty buffer it emits nothing; no other step touches H's
\* buffer.
BufferAtomicity ==
    [][\A h \in Conns :
         /\ AcceptedUploadFor(h) =>
              /\ hostUploadBuffers'[h] =
                    Append(hostUploadBuffers[h],
                           [url |-> lastEvent'.arg, name |-> lastEvent'.arg,
                            id |-> nextPartId', sender |-> h])
              /\ nextPartId' = nextPartId + 1
              /\ emitted' = <<>>
         /\ FlushBy(h) =>
              IF hostUploadBuffers[h] # <<>>
              THEN /\ emitted' = <<[Msg("product-upload-complete", connected)
                                      EXCEPT !.parts = hostUploadBuffers[h],
                                             !.sender = h]>>
                   /\ hostUploadBuffers'[h] = <<>>
              ELSE /\ emitted' = <<>>
                   /\ hostUploadBuffers'[h] = <<>>
         /\ ~AcceptedUploadFor(h) /\ ~FlushBy(h) =>
              hostUploadBuffers'[h] = hostUploadBuffers[h]]_vars

\* Two uploads were flushed as one batch, oldest first.
TwoPartsFlushed ==
    /\ lastEvent.type = "product-upload-complete"
    /\ Len(emitted) = 1
    /\ Len(emitted[1].parts) = 2
    /\ emitted[1].parts[1].id < emitted[1].parts[2].id
    /\ emitted[1].sender = lastEvent.conn
    /\ hostUploadBuffers[lastEvent.conn] = <<>>

\* C6 (host disconnect).  The step in which the host disconnects sets
\* hostSocketId to null and emits exactly one host-changed{null}, to the
\* connections that remain.
HostDisconnectClearsHost ==
    [][\A h \in Conns :
         (Handled("disconnect") /\ lastEvent'.conn = h /\ hostSocketId = h) =>
            /\ hostSocketId' = NULL
            /\ emitted' = <<[Msg("host-changed", connected \ {h})
                               EXCEPT !.hostSocketId = NULL]>>]_vars

\* The host left and the remaining connections were told.
HostDisconnected ==
    /\ lastEvent.type = "disconnect"
    /\ hostSocketId = NULL
    /\ Len(emitted) = 1
    /\ emitted[1].ev = "host-changed"
    /\ emitted[1].hostSocketId = NULL
    /\ emitted[1].to = connected
    /\ connected # {}

\* C7 (cancel before timeout).  A cancel-host-request from B leaves
\* hostSocketId as it was and leaves no armed timer and no pending request
\* of B, so that none of B's cancelled requests can fire later.
CancelBeforeTimeout ==
    [][\A b \in Conns :
         (Handled("cancel-host-request") /\ lastEvent'.conn = b) =>
            /\ hostSocketId' = hostSocketId
            /\ \A r \in DOMAIN timers' : timers'[r] # b
            /\ \A r \in DOMAIN pendingRequests' : pendingRequests'[r].requester # b
            /\ \A r \in DOMAIN timers :
                  timers[r] # b => (r \in DOMAIN timers' /\ timers'[r] = timers[r])]_vars

\* B cancelled its request while A stayed host: A was told of the
\* cancellation and nothing of B's is left.
CancelHappened ==
    /\ lastEvent.type = "cancel-host-request"
    /\ hostSocketId \in connected
    /\ hostSocketId # lastEvent.conn
    /\ Len(emitted) >= 1
    /\ emitted[1].ev = "host-request-cancelled"
    /\ \A r \in DOMAIN timers : timers[r] # lastEvent.conn

\* C8.  The armed timers are exactly the timers of the pending requests: a
\* request removed by release-host, deny-host, cancel-host-request or the
\* disconnect of its requester has no armed timer left, a timer fires only
\* for a request that is still pending, and a request id, once removed, is
\* never armed again.
RemovedRequestNeverFires ==
    [][/\ DOMAIN timers' = DOMAIN pendingRequests'
       /\ \A r \in DOMAIN timers' : timers'[r] = pendingRequests'[r].requester
       /\ Handled("timeout") => lastEvent'.arg \in DOMAIN pendingRequests
       /\ \A r \in 1..nextRequestId :
             r \notin DOMAIN pendingRequests => r \notin DOMAIN timers']_vars

\* A request was removed by something other than its timer (here a release,
\* a denial, a cancel or a disconnect) while another request stayed pending.
RequestRemovedEarly ==
    /\ lastEvent.type \in {"release-host", "deny-host", "cancel-host-request", "disconnect"}
    /\ nextRequestId = 2
    /\ Cardinality(DOMAIN pendingRequests) = 1
    /\ DOMAIN timers = DOMAIN pendingRequests

\* C9.  release-host for a pending request r disarms r's timer, makes r's
\* requester the host, emits exactly one host-changed naming the new host to
\* every connected socket, and removes r and nothing else.
ReleaseGrantsRequester ==
    [][\A r \in RequestIds :
         (Handled("release-host") /\ lastEvent'.arg = r /\ r \in DOMAIN pendingRequests) =>
            LET q == pendingRequests[r].requester IN
              /\ hostSocketId' = q
              /\ emitted' = <<[Msg("host-changed", connected)
                                 EXCEPT !.hostSocketId = q]>>
              /\ DOMAIN pendingRequests' = DOMAIN pendingRequests \ {r}
              /\ \A k \in DOMAIN pendingRequests' : pendingRequests'[k] = pendingRequests[k]
              /\ DOMAIN timers' = DOMAIN timers \ {r}
              /\ \A k \in DOMAIN timers' : timers'[k] = timers[k]]_vars

\* The host released the role to a requester while a second request stayed
\* pending.
ReleaseHappened ==
    /\ lastEvent.type = "release-host"
    /\ lastEvent.arg \in 1..nextRequestId
    /\ lastEvent.arg \notin DOMAIN pendingRequests
    /\ hostSocketId \in connected
    /\ hostSocketId # lastEvent.conn
    /\ emitted = <<[Msg("host-changed", connected) EXCEPT !.hostSocketId = hostSocketId]>>
    /\ pendingRequests # << >>

\* C10.  deny-host for a pending request r leaves hostSocketId as it was,
\* emits exactly one message, transfer-denied{r} to r's requester alone, and
\* removes r, with its timer disarmed, and nothing else.
DenyNotifiesRequesterOnly ==
    [][\A r \in RequestIds :
         (Handled("deny-host") /\ lastEvent'.arg = r /\ r \in DOMAIN pendingRequests) =>
            LET q == pendingRequests[r].requester IN
              /\ hostSocketId' = hostSocketId
              /\ emitted' = <<[Msg("transfer-denied", {q}) EXCEPT !.requestId = r]>>
              /\ DOMAIN pendingRequests' = DOMAIN pendingRequests \ {r}
              /\ \A k \in DOMAIN pendingRequests' : pendingRequests'[k] = pendingRequests[k]
              /\ DOMAIN timers' = DOMAIN timers \ {r}
              /\ \A k \in DOMAIN timers' : timers'[k] = timers[k]]_vars

\* The host denied a request with a third connection looking on: only the
\* requester was told.
DenyHappened ==
    /\ lastEvent.type = "deny-host"
    /\ lastEvent.conn = hostSocketId
    /\ Cardinality(connected) = 3
    /\ Len(emitted) = 1
    /\ emitted[1].ev = "transfer-denied"
    /\ emitted[1].requestId = lastEvent.arg
    /\ Cardinality(emitted[1].to) = 1
    /\ hostSocketId \notin emitted[1].to

\* C11.  request-host from c while another connection H is the host draws a
\* request id never used before, adds exactly one pending request for it with
\* requester c and a timer armed for c, leaves every other request and timer
\* and hostSocketId as they were, and emits exactly one message,
\* host-transfer-request{requestId, requester: c}, to H alone.
RequestCreatesPending ==
    [][\A c \in Conns :
         (/\ Handled("request-host")
          /\ lastEvent'.conn = c
          /\ hostSocketId \notin {NULL, UNDEF, c}) =>
            LET r == nextRequestId' IN
              /\ r > nextRequestId
              /\ r \notin DOMAIN pendingRequests \cup DOMAIN timers
              /\ DOMAIN pendingRequests' = DOMAIN pendingRequests \cup {r}
              /\ pendingRequests'[r] = [requester |-> c]
              /\ \A k \in DOMAIN pendingRequests : pendingRequests'[k] = pendingRequests[k]
              /\ DOMAIN timers' = DOMAIN timers \cup {r}
              /\ timers'[r] = c
              /\ \A k \in DOMAIN timers : timers'[k] = timers[k]
              /\ hostSocketId' = hostSocketId
              /\ emitted' = <<[Msg("host-transfer-request", {hostSocketId})
                                 EXCEPT !.requestId = r, !.requester = c]>>]_vars

\* A connection asked a host for the role with a third connection looking
\* on: the request is pending and armed, and the host alone was asked.
RequestPending ==
    /\ lastEvent.type = "request-host"
    /\ Cardinality(connected) = 3
    /\ hostSocketId \in connected \ {lastEvent.conn}
    /\ Len(emitted) = 1
    /\ emitted[1].ev = "host-transfer-request"
    /\ emitted[1].to = {hostSocketId}
    /\ emitted[1].requestId \in DOMAIN pendingRequests \cap DOMAIN timers
    /\ pendingRequests[emitted[1].requestId].requester = lastEvent.conn

\* C12.  request-host from c while no connection is the host makes c the host
\* at once, emits exactly one message, host-changed{c}, to every connected
\* socket, and creates no pending request and arms no timer.
RequestUnclaimedGrants ==
    [][\A c \in Conns :
         (/\ Handled("request-host")
          /\ lastEvent'.conn = c
          /\ hostSocketId \in {NULL, UNDEF}) =>
            /\ hostSocketId' = c
            /\ emitted' = <<[Msg("host-changed", connected) EXCEPT !.hostSocketId = c]>>
            /\ UNCHANGED <<pendingRequests, timers, nextRequestId>>]_vars

\* A connection asked for the unclaimed role while a request of an earlier
\* host's time was still pending: it became the host at once and the pending
\* request stayed alone.
UnclaimedGranted ==
    /\ lastEvent.type = "request-host"
    /\ hostSocketId = lastEvent.conn
    /\ Cardinality(connected) = 3
    /\ Len(emitted) = 1
    /\ emitted[1].ev = "host-changed"
    /\ emitted[1].hostSocketId = lastEvent.conn
    /\ emitted[1].to = connected
    /\ Cardinality(DOMAIN pendingRequests) = 1
    /\ \A k \in DOMAIN pendingRequests : pendingRequests[k].requester # lastEvent.conn

\* C13.  register-host from c makes c the host whatever hostSocketId was and
\* with no approval step, emits exactly one message, host-changed{c}, to every
\* connected socket, and leaves every pending request, every timer and every
\* upload buffer as it was.
RegisterHostUnconditional ==
    [][\A c \in Conns :
         (Handled("register-host") /\ lastEvent'.conn = c) =>
            /\ hostSocketId' = c
            /\ emitted' = <<[Msg("host-changed", connected) EXCEPT !.hostSocketId = c]>>
            /\ UNCHANGED <<pendingRequests, timers, nextRequestId>>
            /\ UNCHANGED <<hostUploadBuffers, nextPartId>>]_vars

\* A connection registered as host while a request addressed to the previous
\* host was pending and an uploaded part was waiting in a buffer: it is the
\* host, and the request and the part are still there.
RegisteredOverHost ==
    /\ lastEvent.type = "register-host"
    /\ hostSocketId = lastEvent.conn
    /\ Len(emitted) = 1
    /\ emitted[1].ev = "host-changed"
    /\ emitted[1].to = connected
    /\ \E k \in DOMAIN pendingRequests :
          k \in DOMAIN timers /\ pendingRequests[k].requester # lastEvent.conn
    /\ \E h \in Conns : Len(hostUploadBuffers[h]) > 0

\* C14.  give-up-host from the host sets hostSocketId to null and emits exactly
\* one message, host-changed{null}, to every connected socket; from any other
\* connection it changes nothing of the server's state and emits nothing.
GiveUpOnlyByHost ==
    [][\A c \in Conns :
         (Handled("give-up-host") /\ lastEvent'.conn = c) =>
            IF hostSocketId = c
            THEN /\ hostSocketId' = NULL
                 /\ emitted' = <<[Msg("host-changed", connected)
                                    EXCEPT !.hostSocketId = NULL]>>
            ELSE /\ UNCHANGED serverState
                 /\ emitted' = <<>>]_vars

\* The host gave the role up with two other connections looking on: nobody is
\* the host and all three were told.
GaveUp ==
    /\ lastEvent.type = "give-up-host"
    /\ hostSocketId = NULL
    /\ Cardinality(connected) = 3
    /\ Len(emitted) = 1
    /\ emitted[1].ev = "host-changed"
    /\ emitted[1].hostSocketId = NULL
    /\ emitted[1].to = connected

\* C15.  cancel-host-request from c removes exactly the pending requests whose
\* requester is c and disarms their timers, leaves every other request, every
\* other timer and hostSocketId as they were, and, when some connection is the
\* host, emits to that host alone one host-request-cancelled{requestId} for
\* each removed request and nothing else.
CancelRemovesOwnRequests ==
    [][\A c \in Conns :
         (Handled("cancel-host-request") /\ lastEvent'.conn = c) =>
            LET mine == {k \in DOMAIN pendingRequests : pendingRequests[k].requester = c} IN
              /\ DOMAIN pendingRequests' = DOMAIN pendingRequests \ mine
              /\ \A k \in DOMAIN pendingRequests' : pendingRequests'[k] = pendingRequests[k]
              /\ DOMAIN timers' = DOMAIN timers \ mine
              /\ \A k \in DOMAIN timers' : timers'[k] = timers[k]
              /\ hostSocketId' = hostSocketId
              /\ hostSocketId \notin {NULL, UNDEF} =>
                    /\ Len(emitted') = Cardinality(mine)
                    /\ \A r \in mine :
                          \E i \in 1..Len(emitted') :
                             emitted'[i] = [Msg("host-request-cancelled", {hostSocketId})
                                              EXCEPT !.requestId = r]]_vars

\* A connection holding two pending requests cancelled: both are gone with
\* their timers, and the host was told of each of the two.
CancelledTwo ==
    /\ lastEvent.type = "cancel-host-request"
    /\ hostSocketId \in connected \ {lastEvent.conn}
    /\ nextRequestId = 2
    /\ pendingRequests = << >>
    /\ timers = << >>
    /\ Len(emitted) = 2
    /\ emitted[1].requestId # emitted[2].requestId
    /\ \A i \in 1..2 : emitted[i].ev = "host-request-cancelled" /\ emitted[i].to = {hostSocketId}

\* C16.  release-host or deny-host carrying a request id that is not a key of
\* pendingRequests changes neither hostSocketId, pendingRequests, the timers
\* nor the upload buffers, and no message reaches any socket.
UnknownRequestIdIsNoOp ==
    [][\A rid \in RequestIds \cup {ProtoKey} :
         (/\ lastEvent'.type \in {"release-host", "deny-host"}
          /\ lastEvent'.arg = rid
          /\ rid \notin DOMAIN pendingRequests) =>
            /\ UNCHANGED <<hostSocketId, pendingRequests, timers, hostUploadBuffers>>
            /\ \A i \in 1..Len(emitted') : emitted'[i].to = {}]_vars

\* C17.  The disconnect of a connection c that is not the host leaves
\* hostSocketId as it was, removes exactly the pending requests whose requester
\* is c and disarms their timers, leaves every other request and timer as it
\* was, and emits nothing: no host-changed and no notice of the removed
\* requests.
NonHostDisconnectIsSilent ==
    [][\A c \in Conns :
         (Handled("disconnect") /\ lastEvent'.conn = c /\ hostSocketId # c) =>
            LET mine == {k \in DOMAIN pendingRequests : pendingRequests[k].requester = c} IN
              /\ hostSocketId' = hostSocketId
              /\ emitted' = <<>>
              /\ DOMAIN pendingRequests' = DOMAIN pendingRequests \ mine
              /\ \A k \in DOMAIN pendingRequests' : pendingRequests'[k] = pendingRequests[k]
              /\ DOMAIN timers' = DOMAIN timers \ mine
              /\ \A k \in DOMAIN timers' : timers'[k] = timers[k]]_vars

\* A connection other than the host left after two requests had been made:
\* the host is still the host, nothing was emitted, nothing of the leaver is
\* pending, and the request of the third connection is still pending and armed.
NonHostLeft ==
    /\ lastEvent.type = "disconnect"
    /\ hostSocketId \in connected
    /\ emitted = <<>>
    /\ nextRequestId = 2
    /\ Cardinality(DOMAIN pendingRequests) = 1
    /\ DOMAIN timers = DOMAIN pendingRequests
    /\ \A k \in DOMAIN pendingRequests :
          pendingRequests[k].requester \in connected \ {hostSocketId}

\* C18.  Pending requests of different requesters are independent: a step
\* that resolves request r (its release, its denial, its timer, the cancel or
\* the disconnect of its requester) leaves every pending request of every
\* other requester, and its timer, exactly as it was.
RequestsIndependent ==
    [][\A r \in DOMAIN pendingRequests, k \in DOMAIN pendingRequests :
         (/\ pendingRequests[r].requester # pendingRequests[k].requester
          /\ Resolves(r, pendingRequests[r].requester)) =>
            /\ k \in DOMAIN pendingRequests' \cap DOMAIN timers'
            /\ pendingRequests'[k] = pendingRequests[k]
            /\ timers'[k] = timers[k]]_vars

\* Two connections had asked the host for the role; the timer of one of the
\* requests fired and made its requester the host, and the request of the
\* other connection is still pending and armed for it.
OtherRequestSurvives ==
    /\ lastEvent.type = "timeout"
    /\ hostSocketId = lastEvent.conn
    /\ nextRequestId = 2
    /\ Cardinality(DOMAIN pendingRequests) = 1
    /\ \A k \in DOMAIN pendingRequests :
          /\ pendingRequests[k].requester \in connected \ {lastEvent.conn}
          /\ k \in DOMAIN timers
          /\ timers[k] = pendingRequests[k].requester

\* C19.  In every reachable state no two pending requests have the same
\* requester.
OneRequestPerRequester ==
    \A r \in DOMAIN pendingRequests, k \in DOMAIN pendingRequests :
       pendingRequests[r].requester = pendingRequests[k].requester => r = k

\* C20.  An upload whose role header is not 'host' (absent counts as viewer)
\* changes no upload buffer and emits nothing; a buffer grows only in the
\* step of an upload tagged 'host' naming its owner; every part in a buffer
\* was there before the step or is the part of the 'host' upload just
\* handled; and the parts of every product-upload-complete emitted are the
\* buffer of its sender, so no part of an upload not tagged 'host' is ever
\* broadcast.
NonHostUploadNeverBuffered ==
    [][/\ (Handled("upload") /\ lastEvent'.role # "host") =>
             /\ UNCHANGED <<hostUploadBuffers, nextPartId>>
             /\ emitted' = <<>>
       /\ \A h \in Conns :
             /\ Len(hostUploadBuffers'[h]) > Len(hostUploadBuffers[h]) =>
                   /\ Handled("upload")
                   /\ lastEvent'.role = "host"
                   /\ lastEvent'.conn = h
             /\ \A i \in 1..Len(hostUploadBuffers'[h]) :
                   \/ \E j \in 1..Len(hostUploadBuffers[h]) :
                         hostUploadBuffers'[h][i] = hostUploadBuffers[h][j]
                   \/ /\ Handled("upload")
                      /\ lastEvent'.role = "host"
                      /\ hostUploadBuffers'[h][i] =
                            [url |-> lastEvent'.arg, name |-> lastEvent'.arg,
                             id |-> nextPartId + 1, sender |-> lastEvent'.conn]
       /\ \A i \in 1..Len(emitted') :
             emitted'[i].ev = "product-upload-complete" =>
                /\ emitted'[i].sender \in Conns
                /\ emitted'[i].parts = hostUploadBuffers[emitted'[i].sender]]_vars

\* The host itself sent a file without the 'host' tag after one tagged part
\* had been buffered: no part was added to any buffer and nothing was
\* emitted.
ViewerUploadIgnored ==
    /\ lastEvent.type = "upload"
    /\ lastEvent.role \in {"viewer", ""}
    /\ lastEvent.arg # NoFile
    /\ lastEvent.conn = hostSocketId
    /\ hostSocketId \in connected
    /\ emitted = <<>>
    /\ nextPartId = 1
    /\ Len(hostUploadBuffers[lastEvent.conn]) = 1

\* C21.  A product-upload-complete from connection c whose buffer is not
\* empty emits exactly one message, product-upload-complete{parts, sender: c}
\* with parts the whole buffer, whose recipients are all the connected
\* sockets, c among them, and empties c's buffer, so that the parts are
\* delivered once.
FlushReachesEveryone ==
    [][\A c \in Conns :
         (FlushBy(c) /\ hostUploadBuffers[c] # <<>>) =>
            /\ Len(emitted') = 1
            /\ emitted'[1].ev = "product-upload-complete"
            /\ emitted'[1].parts = hostUploadBuffers[c]
            /\ emitted'[1].sender = c
            /\ c \in emitted'[1].to
            /\ \A d \in connected : d \in emitted'[1].to
            /\ hostUploadBuffers'[c] = <<>>]_vars

\* The one request made was released, and the host then uploaded two parts
\* and flushed them: one message with both parts went to every connected
\* socket, the flushing host included.
HandoverFlushed ==
    /\ lastEvent.type = "product-upload-complete"
    /\ lastEvent.conn = hostSocketId
    /\ nextRequestId = 1
    /\ pendingRequests = << >>
    /\ Cardinality(connected) >= 2
    /\ Len(emitted) = 1
    /\ Len(emitted[1].parts) = 2
    /\ \A i \in 1..2 : emitted[1].parts[i].sender = lastEvent.conn
    /\ emitted[1].to = connected
    /\ lastEvent.conn \in emitted[1].to

\* C22, as the claim states it.  Every product-upload-complete the server
\* emits goes to every connected socket other than the one whose event
\* triggered it.
UploadCompleteSkipsSender ==
    [][\A i \in 1..Len(emitted') :
         emitted'[i].ev = "product-upload-complete" =>
            emitted'[i].to = connected \ {lastEvent'.conn}]_vars

\* C22, amended.  Every product-upload-complete the server emits, for a flush
\* or for a browse-selection, names as sender the socket whose event
\* triggered it and goes to every connected socket, that sender included.
UploadCompleteReachesSender ==
    [][\A i \in 1..Len(emitted') :
         emitted'[i].ev = "product-upload-complete" =>
            /\ lastEvent'.type \in {"product-upload-complete", "browse-selection"}
            /\ emitted'[i].sender = lastEvent'.conn
            /\ emitted'[i].sender \in emitted'[i].to
            /\ emitted'[i].to = connected]_vars

\* The host sent a selection with two other sockets connected: the
\* product-upload-complete went to all three, the host among them.
SelectionReachedSender ==
    /\ lastEvent.type = "browse-selection"
    /\ lastEvent.conn = hostSocketId
    /\ Cardinality(connected) = 3
    /\ Len(emitted) = 1
    /\ emitted[1].ev = "product-upload-complete"
    /\ emitted[1].to = connected
    /\ lastEvent.conn \in emitted[1].to

\* C23.  browse-selection{parts} from the host emits exactly one message,
\* product-upload-complete{parts, sender} with the parts as they came, to
\* every connected socket; from any other connection it emits nothing; in
\* both cases every upload buffer and the rest of the server's state stay as
\* they were.
SelectionBypassesBuffer ==
    [][\A c \in Conns :
         (Handled("browse-selection") /\ lastEvent'.conn = c) =>
            /\ UNCHANGED <<connected, nextConn, serverState>>
            /\ emitted' =
                  IF c = hostSocketId
                  THEN <<[Msg("product-upload-complete", connected)
                            EXCEPT !.parts = <<[url |-> lastEvent'.arg,
                                                name |-> lastEvent'.arg,
                                                id |-> 0, sender |-> 0]>>,
                                   !.sender = c]>>
                  ELSE <<>>]_vars

\* The host sent a selection while a part it had uploaded was waiting in its
\* buffer: the selection went out alone and the buffered part is still
\* waiting.
SelectionLeftBuffer ==
    /\ lastEvent.type = "browse-selection"
    /\ lastEvent.conn = hostSocketId
    /\ Len(hostUploadBuffers[lastEvent.conn]) = 1
    /\ Len(emitted) = 1
    /\ Len(emitted[1].parts) = 1
    /\ emitted[1].parts[1].name = lastEvent.arg
    /\ emitted[1].parts[1] # hostUploadBuffers[lastEvent.conn][1]

\* C24.  A host-pointer-toggle or host-pointer-update from any connected
\* socket, host or not and also while nobody is the host, is emitted once,
\* under the same event name and with the same payload, to every connected
\* socket except the sender, and changes nothing of the server's state.
PointerRelayedFromAnyone ==
    [][\A c \in Conns :
         (lastEvent'.type \in PointerEvents /\ lastEvent'.conn = c) =>
            /\ emitted' = <<[Msg(lastEvent'.type, connected \ {c})
                               EXCEPT !.payload = lastEvent'.arg]>>
            /\ UNCHANGED <<connected, nextConn, serverState>>]_vars

\* A connection that is not the host sent a pointer event while another
\* connection was the host: it went to the two others, the host among them.
ViewerPointerRelayed ==
    /\ lastEvent.type \in PointerEvents
    /\ hostSocketId \in connected \ {lastEvent.conn}
    /\ Cardinality(connected) = 3
    /\ Len(emitted) = 1
    /\ emitted[1].ev = lastEvent.type
    /\ emitted[1].payload = lastEvent.arg
    /\ emitted[1].to = connected \ {lastEvent.conn}

\* A value of hostSocketId read as "nobody" or as a socket id.
HostValue(h) == IF Truthy(h) THEN h ELSE NULL

\* C25.  Whenever no host-changed is on its way to any page and no
\* register-host on its way to the server, every connected page, whenever it
\* was loaded, holds in currentHostId the host the server holds in
\* hostSocketId.
HostValueAgreed ==
    (\A c \in DOMAIN clients : clients[c].inbox = <<>> /\ ~clients[c].registering) =>
        \A c \in DOMAIN clients :
           HostValue(clients[c].currentHostId) = HostValue(hostSocketId)

\* C26.  The isHost flag of every page says whether the last host-changed
\* the page received named the page's own socket; it is false for a page
\* that has received none.
IsHostFollowsHostChanged ==
    \A c \in DOMAIN clients :
       clients[c].isHost <=> (clients[c].currentHostId = c)

RequestEventuallyDestroyed ==
    /\ [][\A r \in DOMAIN pendingRequests :
            r \notin DOMAIN pendingRequests' =>
               Resolves(r, pendingRequests[r].requester)]_vars
    /\ \A r \in RequestIds :
          (r \in DOMAIN pendingRequests) ~> (r \notin DOMAIN pendingRequests)

\* The host left while a request addressed to it was pending: nobody is the
\* host and the request is still pending and armed.
RequestOutlivesHost ==
    /\ lastEvent.type = "disconnect"
    /\ hostSocketId = NULL
    /\ Len(emitted) = 1
    /\ emitted[1].ev = "host-changed"
    /\ Cardinality(DOMAIN pendingRequests) = 1
    /\ DOMAIN timers = DOMAIN pendingRequests

\* C29.  Once a delete-all-uploads request has read the directory and every
\* unlink callback it started has run, it has been answered exactly once,
\* with status 200, whatever the directory held.
DeleteAllAnswered ==
    (/\ lastEvent.type \in {"delete-all-uploads", "unlink"}
     /\ deletion.unlinks = 0
     /\ deletion.responses # <<500>>) =>
        deletion.responses = <<200>>

\* C30, as the claim states it.  Whenever nobody is the host, no request is
\* pending.
NoRequestWhileUnclaimed ==
    hostSocketId \in {NULL, UNDEF} => pendingRequests = << >>

\* C30, amended.  A request becomes pending only in a request-host handled
\* while some connection other than the requester is the host; and a step in
\* which the host is lost (it gives the role up, disconnects, or is unseated
\* by a release) leaves pending and armed every request whose requester is
\* not the connection that acted, so that requests outlive their host.
RequestsOutliveHost ==
    [][/\ \A r \in DOMAIN pendingRequests' \ DOMAIN pendingRequests :
             /\ Handled("request-host")
             /\ hostSocketId \notin {NULL, UNDEF, pendingRequests'[r].requester}
             /\ hostSocketId' = hostSocketId
       /\ (hostSocketId \notin {NULL, UNDEF} /\ hostSocketId' \in {NULL, UNDEF}) =>
             /\ lastEvent'.type \in {"give-up-host", "disconnect", "release-host"}
             /\ \A r \in DOMAIN pendingRequests :
                   pendingRequests[r].requester # lastEvent'.conn =>
                      /\ r \in DOMAIN pendingRequests' \cap DOMAIN timers'
                      /\ pendingRequests'[r] = pendingRequests[r]
                      /\ timers'[r] = timers[r]]_vars

\* The host gave the role up while a request addressed to it was pending:
\* nobody is the host and the request is still pending and armed.
RequestPendingUnclaimed ==
    /\ lastEvent.type = "give-up-host"
    /\ hostSocketId = NULL
    /\ Len(emitted) = 1
    /\ pendingRequests # << >>
    /\ DOMAIN timers = DOMAIN pendingRequests
    /\ \A r \in DOMAIN pendingRequests : pendingRequests[r].requester \in connected

\* ------------------------------------------------------------- C31 .. C39

\* C31.  release-host transfers the host role only when the current host
\* sends it: a release-host handled for any connection that is not the host
\* (the requester itself, a third viewer) leaves hostSocketId as it was.
ReleaseOnlyByHost ==
    [][(Handled("release-host") /\ lastEvent'.conn # hostSocketId) =>
          hostSocketId' = hostSocketId]_vars

\* C32.  Every product-upload-complete message is emitted in a step taken for
\* the connection that is the host at that moment, whether the step is the
\* flush of a buffer or a browse-selection.
UploadCompleteOnlyFromHost ==
    [][\A i \in 1..Len(emitted') :
          emitted'[i].ev = "product-upload-complete" =>
             lastEvent'.conn = hostSocketId]_vars

\* C33.  No dangling references: hostSocketId is none or the id of a socket
\* that is connected, and the requester of every pending request is
\* connected, so that neither a deadline nor a release can make a socket
\* that has gone the host.
NoDanglingReferences ==
    /\ HostValue(hostSocketId) # NULL => hostSocketId \in connected
    /\ \A r \in DOMAIN pendingRequests : pendingRequests[r].requester \in connected
    /\ DOMAIN timers \subseteq DOMAIN pendingRequests

\* A socket has just disconnected while two requests had been made; one
\* request of a socket that is still connected remains, and there is a host.
RequesterLeftOtherStays ==
    /\ lastEvent.type = "disconnect"
    /\ lastEvent.conn \notin connected
    /\ nextRequestId >= 2
    /\ Cardinality(DOMAIN pendingRequests) = 1
    /\ Truthy(hostSocketId)

\* C35.  In no reachable state is there a pending request whose requester is
\* the current host.
NoRequestOfHost ==
    \A r \in DOMAIN pendingRequests : pendingRequests[r].requester # hostSocketId

\* C38.  hostSocketId never changes silently: a step that changes it emits,
\* in that step, exactly one message, a host-changed addressed to every
\* socket connected after the step and carrying the new value.
HostNeverChangesSilently ==
    [][hostSocketId' # hostSocketId =>
          emitted' = <<HostChanged(connected', hostSocketId')>>]_vars

\* A release-host sent by one socket has made another the host, and all
\* three connected sockets are told so.
ReleaseAnnounced ==
    /\ lastEvent.type = "release-host"
    /\ Truthy(hostSocketId)
    /\ hostSocketId # lastEvent.conn
    /\ Cardinality(connected) = 3
    /\ emitted = <<HostChanged(connected, hostSocketId)>>

\* C39.  A connection becomes the host only as a result of its own
\* register-host or request-host: a step that makes a socket the host is
\* that socket's register-host or request-host, or the deadline or the release
\* of a request whose requester it is; and a request enters the table only
\* in the request-host of its requester, which never changes afterwards.
HostOnlyByOwnRequest ==
    [][/\ (hostSocketId' # hostSocketId /\ Truthy(hostSocketId')) =>
             \/ /\ lastEvent'.type \in {"register-host", "request-host"}
                /\ lastEvent'.conn = hostSocketId'
             \/ /\ lastEvent'.type \in {"timeout", "release-host"}
                /\ lastEvent'.arg \in DOMAIN pendingRequests
                /\ pendingRequests[lastEvent'.arg].requester = hostSocketId'
       /\ \A r \in DOMAIN pendingRequests' :
             IF r \in DOMAIN pendingRequests
             THEN pendingRequests'[r] = pendingRequests[r]
             ELSE /\ Handled("request-host")
                  /\ lastEvent'.conn = pendingRequests'[r].requester]_vars

\* The deadline of a request has made its requester the host while the
\* request of another socket is still pending.
GrantedByDeadline ==
    /\ lastEvent.type = "timeout"
    /\ hostSocketId = lastEvent.conn
    /\ Cardinality(connected) = 3
    /\ pendingRequests # << >>
    /\ \A r \in DOMAIN pendingRequests : pendingRequests[r].requester # hostSocketId

\* C36.  Quiescent role agreement: in a state where no message is on its way
\* (no host-changed waits for any page and no page's register-host is still
\* to be handled), isHost of every loaded page is true exactly when
\* hostSocketId on the server is the id of its socket.
QuiescentRoleAgreement ==
    (\A c \in DOMAIN clients : clients[c].inbox = <<>> /\ ~clients[c].registering) =>
        \A c \in DOMAIN clients : clients[c].isHost <=> (hostSocketId = c)

\* C34.  Whenever a request is pending and some socket is the host, that
\* host has been sent the host-transfer-request of that request, also after
\* the role has moved since the request was made.
HostKnowsEveryRequest ==
    \A r \in DOMAIN pendingRequests :
        hostSocketId \in DOMAIN clients =>
            r \in clients[hostSocketId].transferRequests

\* C37.  Once the page of a socket has handled a host-changed that names
\* another socket (and with it has cleared its hostRequestPending and its
\* timer), the server holds no pending request of that socket.
HandledHostChangeEndsRequest ==
    (/\ lastEvent.type = "received host-changed"
     /\ Truthy(lastEvent.arg)
     /\ lastEvent.arg # lastEvent.conn) =>
        \A r \in DOMAIN pendingRequests :
            pendingRequests[r].requester # lastEvent.conn
====
